---------------------------- MODULE Spec2Model ----------------------------
(***************************************************************************)
(* A model of rulinalg's Cholesky decomposition (src/matrix/decomposition/ *)
(* cholesky.rs), its elementwise matrix comparison (src/macros/            *)
(* matrix_eq.rs) and its PermutationMatrix (src/matrix/                    *)
(* permutation_matrix.rs).                                                 *)
(*                                                                         *)
(* Scalars.  The code is generic over T: Float.  A scalar is modelled as   *)
(* a number of a bounded binary-style format: an integer count of units of *)
(* 1/Scale, finite between -MaxFinite and MaxFinite, plus the three IEEE   *)
(* special values +infinity, -infinity and NaN.  Every operation computes  *)
(* the exact result and rounds it to the nearest representable value (ties *)
(* to even), overflows to an infinity and follows the IEEE rules for the   *)
(* special values; comparisons with NaN are false.                         *)
(***************************************************************************)
EXTENDS Integers, Sequences, FiniteSets, TLC

VARIABLES
    matrix,      \* the Matrix<T> handed to Cholesky::decompose
    sweep,       \* decompose at work: its matrix a and its column j
    chol,        \* what decompose returned: Result<Cholesky<T>, Error>
    op,          \* the last operation that ran
    out,         \* what the last det / solve / unpack returned
    rhs,         \* the right-hand side b of the last solve
    cmpX,        \* elementwise_matrix_comparison: its argument x
    cmpY,        \* elementwise_matrix_comparison: its argument y
    comparator,  \* the ElementwiseComparator in use
    cmpBuild,    \* whether the build checks integer overflow (debug) or wraps (release)
    cmp,         \* what the last comparison returned
    perm,        \* PermutationMatrix.perm
    pmOut        \* what the last PermutationMatrix query returned

vars == <<matrix, sweep, chol, op, out, rhs, cmpX, cmpY, comparator, cmpBuild, cmp, perm, pmOut>>

cholVars == <<matrix, sweep, chol, op, out, rhs>>
cmpVars  == <<cmpX, cmpY, comparator, cmpBuild, cmp>>
permVars == <<perm, pmOut>>

None == [tag |-> "None"]

-----------------------------------------------------------------------------
(* Bounds of the model.                                                    *)

\* largest dimension of the exhaustively enumerated input matrices
MaxN == 2
\* units per 1.0 of the scalar format
Scale == 4
\* largest finite scalar, in units
MaxFinite == 400

-----------------------------------------------------------------------------
(* The scalar type T: Float.                                               *)

PInf == MaxFinite + 1
NInf == -(MaxFinite + 1)
NaN  == -(MaxFinite + 2)

\* T::epsilon(), in units
Eps == 2

zero == 0
one  == Scale

IsNaN(v) == v = NaN
is_finite(v) == v >= -MaxFinite /\ v <= MaxFinite
IsInf(v) == v = PInf \/ v = NInf

Sgn(v) == IF v > 0 THEN 1 ELSE IF v < 0 THEN -1 ELSE 0
Mag(v) == IF v < 0 THEN -v ELSE v

\* a result beyond the largest finite value becomes an infinity
Overflow(v) == IF v > MaxFinite THEN PInf ELSE IF v < -MaxFinite THEN NInf ELSE v

\* p / q for q > 0, rounded to the nearest integer, ties to even
RoundDiv(p, q) ==
    LET fl == p \div q
        r  == p % q
    IN  IF 2 * r < q THEN fl
        ELSE IF 2 * r > q THEN fl + 1
        ELSE IF fl % 2 = 0 THEN fl ELSE fl + 1

RECURSIVE FloorSqrtFrom(_, _)
FloorSqrtFrom(m, r) == IF (r + 1) * (r + 1) > m THEN r ELSE FloorSqrtFrom(m, r + 1)

\* the square root of m >= 0, rounded to the nearest integer
RoundSqrt(m) ==
    LET r == FloorSqrtFrom(m, 0)
    IN  IF m <= r * r + r THEN r ELSE r + 1

FNeg(a) == IF IsNaN(a) THEN NaN ELSE -a

abs(a) == IF IsNaN(a) THEN NaN ELSE Mag(a)

FAdd(a, b) ==
    IF IsNaN(a) \/ IsNaN(b) THEN NaN
    ELSE IF IsInf(a) /\ IsInf(b) THEN (IF a = b THEN a ELSE NaN)
    ELSE IF IsInf(a) THEN a
    ELSE IF IsInf(b) THEN b
    ELSE Overflow(a + b)

FSub(a, b) == FAdd(a, FNeg(b))

FMul(a, b) ==
    IF IsNaN(a) \/ IsNaN(b) THEN NaN
    ELSE IF IsInf(a) \/ IsInf(b)
         THEN (IF a = 0 \/ b = 0 THEN NaN
               ELSE IF Sgn(a) * Sgn(b) > 0 THEN PInf ELSE NInf)
    ELSE Overflow(RoundDiv(a * b, Scale))

FDiv(a, b) ==
    IF IsNaN(a) \/ IsNaN(b) THEN NaN
    ELSE IF IsInf(a) /\ IsInf(b) THEN NaN
    ELSE IF IsInf(a) THEN (IF Sgn(a) * Sgn(b) >= 0 THEN a ELSE FNeg(a))
    ELSE IF IsInf(b) THEN 0
    ELSE IF b = 0 THEN (IF a = 0 THEN NaN ELSE IF a > 0 THEN PInf ELSE NInf)
    ELSE Overflow(RoundDiv(Sgn(b) * a * Scale, Mag(b)))

sqrt(a) ==
    IF IsNaN(a) \/ a < 0 THEN NaN
    ELSE IF a = PInf THEN PInf
    ELSE RoundSqrt(a * Scale)

\* the comparison operators of PartialOrd: false whenever an operand is NaN
FLt(a, b) == ~IsNaN(a) /\ ~IsNaN(b) /\ a < b
FGe(a, b) == ~IsNaN(a) /\ ~IsNaN(b) /\ a >= b

-----------------------------------------------------------------------------
(* Matrix<T> and Vector<T>: rows, cols and the entries, indexed from 0.    *)

Idx(n) == 0 .. (n - 1)

Mat(r, c, f) == [rows |-> r, cols |-> c, data |-> f]
Vec(n, f)    == [size |-> n, data |-> f]

\* utils::dot over two slices of equal length: s + u[k] * v[k] for k = from, from + 1, ..
\* (a NaN sum stays NaN whatever is added to it)
RECURSIVE DotFrom(_, _, _, _)
DotFrom(u, v, from, s) ==
    IF IsNaN(s) THEN NaN
    ELSE IF from > Len(u) THEN s
    ELSE DotFrom(u, v, from + 1, FAdd(s, FMul(u[from], v[from])))

dot(u, v) == DotFrom(u, v, 1, zero)

\* a.row(i).raw_slice()[0 .. j]
RowPrefix(a, i, j) == [c \in 1 .. j |-> a[<<i, c - 1>>]]

-----------------------------------------------------------------------------
(* Cholesky<T>  (cholesky.rs).                                             *)

Ok(v)     == [tag |-> "Ok", val |-> v]
Err(k, m) == [tag |-> "Err", kind |-> k, msg |-> m]
Panic(m)  == [tag |-> "Panic", msg |-> m]

\* the update with the prefixes taken one entry too long
GaxpyColumnInclusive(a, n, j) ==
    [p \in DOMAIN a |->
        IF p[2] = j /\ p[1] >= j
        THEN FSub(a[p], dot(RowPrefix(a, p[1], j + 1), RowPrefix(a, j, j + 1)))
        ELSE a[p]]

\* lines 46-53: a[[k, j]] = a[[k, j]] - dot(k_row[0 .. j], j_row[0 .. j]) for k in j .. n.
\* The slices read columns 0 .. j-1 only, which the loop does not write.
GaxpyColumn(a, n, j) ==
    [p \in DOMAIN a |->
        IF p[2] = j /\ p[1] >= j
        THEN FSub(a[p], dot(RowPrefix(a, p[1], j), RowPrefix(a, j, j)))
        ELSE a[p]]

\* the division that leaves the diagonal entry out
DivideColumnBelowDiagonal(a, n, j, divisor) ==
    [p \in DOMAIN a |-> IF p[2] = j /\ p[1] > j THEN FDiv(a[p], divisor) ELSE a[p]]

\* lines 66-68: a[[k, j]] = a[[k, j]] / divisor for k in j .. n
DivideColumn(a, n, j, divisor) ==
    [p \in DOMAIN a |->
        IF p[2] = j /\ p[1] >= j THEN FDiv(a[p], divisor) ELSE a[p]]

\* lines 41-68: what the body of the loop does to a for column j: the matrix
\* after it, or the failure it returns
Column(a, n, j) ==
    LET a1 == IF j > 0 THEN GaxpyColumn(a, n, j) ELSE a
        diagonal == a1[<<j, j>>]
    IN  IF FLt(abs(diagonal), Eps)
        THEN Err("DecompFailure", "Matrix is singular to working precision.")
        ELSE IF FLt(diagonal, zero)
        THEN Err("DecompFailure", "Diagonal entries of matrix are not all positive.")
        ELSE Ok(DivideColumn(a1, n, j, sqrt(diagonal)))

\* lines 78-80: self.l.diag().cloned().fold(T::one(), |a, b| a * b), from entry i on
\* (a NaN product stays NaN whatever it is multiplied by)
RECURSIVE DiagFold(_, _, _)
DiagFold(l, i, acc) ==
    IF IsNaN(acc) THEN NaN
    ELSE IF i >= l.rows THEN acc
    ELSE DiagFold(l, i + 1, FMul(acc, l.data[<<i, i>>]))

\* the product of the diagonal, not squared
det_unsquared(c) == DiagFold(c.l, 0, one)

\* lines 77-82
det(c) ==
    LET l_det == DiagFold(c.l, 0, one)
    IN  FMul(l_det, l_det)

\* internal_utils::nullify_upper_triangular_part
nullify_upper_triangular_part(l) ==
    Mat(l.rows, l.cols,
        [p \in DOMAIN l.data |-> IF p[2] > p[1] THEN zero ELSE l.data[p]])

\* the factor as stored
unpack_as_stored(c) == c.l

\* lines 101-106
unpack(c) == nullify_upper_triangular_part(c.l)

RECURSIVE InnerProductAlongRow(_, _, _, _)
\* the inner product taken along row i instead of column i
InnerProductAlongRow(l, xd, i, hi) ==
    IF hi <= i THEN zero
    ELSE FAdd(InnerProductAlongRow(l, xd, i, hi - 1), FMul(l.data[<<i, hi>>], xd[hi]))

\* lines 195-198: inner_product + l[[j, i]] * x[j] for j in (i + 1) ..= hi, in that order
RECURSIVE InnerProduct(_, _, _, _)
InnerProduct(l, xd, i, hi) ==
    IF hi <= i THEN zero
    ELSE FAdd(InnerProduct(l, xd, i, hi - 1), FMul(l.data[<<hi, i>>], xd[hi]))

\* lines 194-207: the loop body for i, i - 1, .., 0
RECURSIVE BackLoop(_, _, _)
BackLoop(l, xd, i) ==
    IF i < 0 THEN Ok(Vec(l.rows, xd))
    ELSE LET inner_product == InnerProduct(l, xd, i, l.rows - 1)
             diagonal == l.data[<<i, i>>]
         IN  IF FLt(abs(diagonal), Eps)
             THEN Err("DivByZero", "Matrix L is singular to working precision.")
             ELSE BackLoop(l, [xd EXCEPT ![i] = FDiv(FSub(xd[i], inner_product), diagonal)],
                           i - 1)

transpose_back_substitution(l, b) ==
    IF l.rows # l.cols THEN Panic("Matrix L must be square.")
    ELSE IF l.rows # b.size THEN Panic("L and b must be dimensionally compatible.")
    ELSE BackLoop(l, b.data, l.rows - 1)

\* matrix::forward_substitution, the sum l[[i, j]] * x[j] for j in 0 ..= hi
RECURSIVE ForwardSum(_, _, _, _)
ForwardSum(l, xd, i, hi) ==
    IF hi < 0 THEN zero
    ELSE FAdd(ForwardSum(l, xd, i, hi - 1), FMul(l.data[<<i, hi>>], xd[hi]))

RECURSIVE ForwardLoop(_, _, _)
ForwardLoop(l, xd, i) ==
    IF i >= l.rows THEN Ok(Vec(l.rows, xd))
    ELSE LET diagonal == l.data[<<i, i>>]
         IN  IF FLt(abs(diagonal), Eps)
             THEN Err("DivByZero", "Linear system cannot be solved (matrix is singular).")
             ELSE ForwardLoop(l,
                     [xd EXCEPT ![i] = FDiv(FSub(xd[i], ForwardSum(l, xd, i, i - 1)), diagonal)],
                     i + 1)

\* matrix::forward_substitution: solves L y = b; it does not handle the empty
\* matrix (cholesky.rs, lines 322-325)
forward_substitution(l, b) ==
    IF l.rows = 0 \/ l.cols = 0 THEN Err("InvalidArg", "Matrix is empty.")
    ELSE ForwardLoop(l, b.data, 0)

\* lines 85-95
solve(c, b) ==
    IF c.l.rows # b.size
    THEN Panic("RHS vector and coefficient matrix must be dimensionally compatible.")
    ELSE LET yr == forward_substitution(c.l, b)
         IN  IF yr.tag # "Ok" THEN Panic("Internal error: L should be invertible.")
             ELSE LET xr == transpose_back_substitution(c.l, yr.val)
                  IN  IF xr.tag # "Ok"
                      THEN Panic("Internal error: L^T should be invertible.")
                      ELSE Ok(xr.val)

-----------------------------------------------------------------------------
(* The inputs.                                                             *)

\* lines 153-156: sum = sum + new_data[i * cols + k] * new_data[j * cols + k] for k in 0 .. j
RECURSIVE CholeskySum(_, _, _, _, _, _)
CholeskySum(new_data, cols, i, j, k, sum) ==
    IF IsNaN(sum) THEN NaN
    ELSE IF k >= j THEN sum
    ELSE CholeskySum(new_data, cols, i, j, k + 1,
                     FAdd(sum, FMul(new_data[i * cols + k + 1], new_data[j * cols + k + 1])))

\* lines 144-172: the loops over i and j from their k-th cell on, new_data being
\* the cells pushed so far, row by row
RECURSIVE CholeskyCells(_, _, _)
CholeskyCells(m, k, new_data) ==
    IF k >= m.rows * m.cols
    THEN Ok(Mat(m.rows, m.cols, [p \in Idx(m.rows) \X Idx(m.cols) |-> new_data[p[1] * m.cols + p[2] + 1]]))
    ELSE LET i == k \div m.cols
             j == k % m.cols
             sum == CholeskySum(new_data, m.cols, i, j, 0, zero)
         IN  IF j > i THEN CholeskyCells(m, k + 1, Append(new_data, zero))
             ELSE IF j = i
             THEN CholeskyCells(m, k + 1, Append(new_data, sqrt(FSub(m.data[<<i, i>>], sum))))
             ELSE LET p == FDiv(FSub(m.data[<<i, j>>], sum), new_data[j * m.cols + j + 1])
                  IN  IF ~is_finite(p)
                      THEN Err("DecompFailure", "Matrix is not positive definite.")
                      ELSE CholeskyCells(m, k + 1, Append(new_data, p))

\* lines 138-179: Matrix::cholesky
cholesky(m) ==
    IF m.rows # m.cols THEN Panic("Matrix must be square for Cholesky decomposition.")
    ELSE CholeskyCells(m, 0, <<>>)

\* scalars of the enumerated matrices: NaN, -1.0, 0.0, one unit (below epsilon), 1.0, 2.0
InputVals == {NaN, -Scale, 0, 1, Scale, 2 * Scale}

\* scalars of the enumerated entries below the diagonal
OffVals == {NaN, -Scale, 0, Scale}

\* scalars of the enumerated right-hand sides
RhsVals == {-Scale, Scale}

\* the value left above the diagonal of a matrix that is not symmetric
Junk == 3 * Scale

StrictLower(n) == {p \in Idx(n) \X Idx(n) : p[2] < p[1]}

\* the n x n matrix with the diagonal diag, the entries off below it, and above
\* it their mirror image (mirror) or Junk
FromLower(n, diag, off, mirror) ==
    Mat(n, n, [p \in Idx(n) \X Idx(n) |->
                 IF p[2] = p[1] THEN diag[p[1]]
                 ELSE IF p[2] < p[1] THEN off[p]
                 ELSE IF mirror THEN off[<<p[2], p[1]>>] ELSE Junk])

\* a matrix given by its rows, each a sequence of whole numbers
FromRows(rs) ==
    Mat(Len(rs), Len(rs),
        [p \in Idx(Len(rs)) \X Idx(Len(rs)) |-> rs[p[1] + 1][p[2] + 1] * Scale])

\* the matrices of the tests of cholesky.rs (lines 232-353)
TestMatrices ==
    { FromRows(<< <<4>> >>),
      FromRows(<< <<9, -6>>, <<-6, 20>> >>),
      FromRows(<< <<0, 0>>, <<0, 1>> >>),
      FromRows(<< <<1, 0>>, <<0, 0>> >>),
      FromRows(<< <<1, 3, 5>>, <<3, 9, 15>>, <<5, 15, 65>> >>),
      FromRows(<< <<1, 3, 5>>, <<3, 18, 33>>, <<5, 33, 65>> >>),
      FromRows(<< <<4, 6>>, <<6, 25>> >>) }

\* a matrix that is not square
NonSquareMatrices == { Mat(1, 2, [p \in Idx(1) \X Idx(2) |-> one]) }

FromSeq(v) == Vec(Len(v), [i \in Idx(Len(v)) |-> v[i + 1] * Scale])

RhsVectors(n) ==
    {Vec(n, f) : f \in [Idx(n) -> RhsVals]}
        \cup {v \in {FromSeq(<<4>>), FromSeq(<<2, 4>>)} : v.size = n}

-----------------------------------------------------------------------------
(* The operations on a Cholesky decomposition.                             *)

CmpIdle  == cmpX = None /\ cmpY = None /\ comparator = None /\ cmpBuild = "none" /\ cmp = None
PermIdle == perm = None /\ pmOut = None
CholIdle == matrix = None /\ sweep = None /\ chol = None /\ op = "none" /\ out = None /\ rhs = None

Init ==
    /\ \/ \E n \in 0 .. MaxN, mirror \in BOOLEAN :
             \E diag \in [Idx(n) -> InputVals], off \in [StrictLower(n) -> OffVals] :
                 matrix = FromLower(n, diag, off, mirror)
       \/ matrix \in TestMatrices \cup NonSquareMatrices
    /\ sweep = None
    /\ chol = None
    /\ op = "new"
    /\ out = None
    /\ rhs = None
    /\ CmpIdle
    /\ PermIdle

\* lines 20-37: decompose takes the matrix over
Decompose ==
    /\ op = "new"
    /\ IF matrix.rows # matrix.cols
       THEN /\ chol' = Panic("Matrix must be square for Cholesky decomposition.")
            /\ op' = "decompose"
            /\ sweep' = sweep
       ELSE /\ sweep' = [a |-> matrix.data, n |-> matrix.rows, j |-> 0]
            /\ op' = "sweep"
            /\ chol' = chol
    /\ UNCHANGED <<matrix, out, rhs, cmpVars, permVars>>

\* lines 40-69: one pass of the loop; on a failure sweep keeps the column and the
\* matrix as updated so far
SweepColumn ==
    /\ op = "sweep"
    /\ sweep.j < sweep.n
    /\ LET r == Column(sweep.a, sweep.n, sweep.j)
       IN  IF r.tag = "Ok"
           THEN /\ sweep' = [sweep EXCEPT !.a = r.val, !.j = sweep.j + 1]
                /\ UNCHANGED <<chol, op>>
           ELSE /\ chol' = r
                /\ op' = "decompose"
                /\ sweep' = [sweep EXCEPT
                                !.a = IF sweep.j > 0
                                      THEN GaxpyColumn(sweep.a, sweep.n, sweep.j)
                                      ELSE sweep.a]
    /\ UNCHANGED <<matrix, out, rhs, cmpVars, permVars>>

\* lines 71-73: every column is done
SweepDone ==
    /\ op = "sweep"
    /\ sweep.j >= sweep.n
    /\ chol' = Ok([l |-> Mat(sweep.n, sweep.n, sweep.a)])
    /\ op' = "decompose"
    /\ UNCHANGED <<matrix, sweep, out, rhs, cmpVars, permVars>>

\* det and solve borrow the decomposition; unpack consumes it
Alive == op \in {"decompose", "det", "solve"} /\ chol.tag = "Ok"

Det ==
    /\ Alive
    /\ out' = Ok(det(chol.val))
    /\ op' = "det"
    /\ rhs' = None
    /\ UNCHANGED <<matrix, sweep, chol, cmpVars, permVars>>

Solve ==
    /\ Alive
    /\ \E b \in RhsVectors(chol.val.l.rows) :
          /\ rhs' = b
          /\ out' = solve(chol.val, b)
    /\ op' = "solve"
    /\ UNCHANGED <<matrix, sweep, chol, cmpVars, permVars>>

Unpack ==
    /\ Alive
    /\ out' = Ok(unpack(chol.val))
    /\ op' = "unpack"
    /\ rhs' = None
    /\ UNCHANGED <<matrix, sweep, chol, cmpVars, permVars>>

\* lines 138-179: the convenience method, on the matrix as given
MatrixCholesky ==
    /\ op = "new"
    /\ out' = cholesky(matrix)
    /\ op' = "cholesky"
    /\ UNCHANGED <<matrix, sweep, chol, rhs, cmpVars, permVars>>

Next == Decompose \/ SweepColumn \/ SweepDone \/ Det \/ Solve \/ Unpack \/ MatrixCholesky

Spec == Init /\ [][Next]_vars

\* Matrix::identity(n)
Identity(n) == Mat(n, n, [p \in Idx(n) \X Idx(n) |-> IF p[1] = p[2] THEN one ELSE zero])

\* the largest n of tests::property_cholesky_of_identity_is_identity
MaxIdentityN == 30

InitIdentity ==
    /\ matrix \in {Identity(n) : n \in 0 .. MaxIdentityN}
    /\ sweep = None
    /\ chol = None
    /\ op = "new"
    /\ out = None
    /\ rhs = None
    /\ CmpIdle
    /\ PermIdle

NextIdentity == Decompose \/ SweepColumn \/ SweepDone \/ Det \/ Unpack

SpecIdentity == InitIdentity /\ [][NextIdentity]_vars

-----------------------------------------------------------------------------
(* transpose_back_substitution on its own, for any L and b.                *)

\* the systems of tests::transpose_back_substitution_examples
BackTests ==
    { <<Mat(0, 0, [p \in Idx(0) \X Idx(0) |-> zero]), FromSeq(<<>>)>>,
      <<FromRows(<< <<2>> >>), FromSeq(<<2>>)>>,
      <<FromRows(<< <<2, 0>>, <<3, 4>> >>), FromSeq(<<2, 1>>)>>,
      <<FromRows(<< <<2, 0, 0>>, <<5, -1, 0>>, <<-2, 0, 1>> >>), FromSeq(<<-1, 2, 3>>)>> }

\* a matrix that is not square, and a right-hand side of the wrong length
BackMisuses ==
    { <<Mat(1, 2, [p \in Idx(1) \X Idx(2) |-> one]), FromSeq(<<1>>)>>,
      <<FromRows(<< <<2>> >>), FromSeq(<<1, 1>>)>> }

InitBack ==
    /\ \/ \E n \in 0 .. MaxN, mirror \in BOOLEAN :
             \E diag \in [Idx(n) -> InputVals], off \in [StrictLower(n) -> OffVals] :
                 \E b \in RhsVectors(n) :
                     matrix = FromLower(n, diag, off, mirror) /\ rhs = b
       \/ \E t \in BackTests \cup BackMisuses : matrix = t[1] /\ rhs = t[2]
    /\ sweep = None
    /\ chol = None
    /\ op = "new"
    /\ out = None
    /\ CmpIdle
    /\ PermIdle

\* lines 184-210
BackSubstitute ==
    /\ op = "new"
    /\ out' = transpose_back_substitution(matrix, rhs)
    /\ op' = "back"
    /\ UNCHANGED <<matrix, sweep, chol, rhs, cmpVars, permVars>>

NextBack == BackSubstitute

SpecBack == InitBack /\ [][NextBack]_vars

-----------------------------------------------------------------------------
(* Exact arithmetic, against which the claims measure the rounded results. *)

Symmetric(m) ==
    m.rows = m.cols /\ \A p \in DOMAIN m.data : m.data[p] = m.data[<<p[2], p[1]>>]

AllFinite(m) == \A p \in DOMAIN m.data : is_finite(m.data[p])

\* the determinant, in units^|C|, of the rows r .. of d restricted to the columns C
RECURSIVE ExactDet(_, _, _)
ExactDet(d, r, C) ==
    IF C = {} THEN 1
    ELSE LET Term(c) == (IF Cardinality({e \in C : e < c}) % 2 = 0 THEN 1 ELSE -1)
                            * d[<<r, c>>] * ExactDet(d, r + 1, C \ {c})
             Sum[S \in SUBSET C] ==
                 IF S = {} THEN 0
                 ELSE LET c == CHOOSE e \in S : TRUE IN Term(c) + Sum[S \ {c}]
         IN  Sum[C]

RECURSIVE Pow(_, _)
Pow(b, e) == IF e = 0 THEN 1 ELSE b * Pow(b, e - 1)

\* symmetric, finite, and every leading principal minor positive
PositiveDefinite(m) ==
    /\ Symmetric(m)
    /\ AllFinite(m)
    /\ \A k \in 1 .. m.rows : ExactDet(m.data, 0, Idx(k)) > 0

\* (L * L^T)[i, j] in units^2, summed over the whole rows of l
RECURSIVE ExactRowProduct(_, _, _, _)
ExactRowProduct(l, i, j, k) ==
    IF k < 0 THEN 0
    ELSE ExactRowProduct(l, i, j, k - 1) + l.data[<<i, k>>] * l.data[<<j, k>>]

\* L * L^T = A, with no rounding
ReconstructsExactly(l, a) ==
    /\ l.rows = a.rows /\ l.cols = a.cols
    /\ AllFinite(l)
    /\ \A p \in DOMAIN a.data :
          ExactRowProduct(l, p[1], p[2], l.cols - 1) = a.data[p] * Scale

\* the operation's exact result is representable: nothing is rounded or overflows
MulExact(a, b) ==
    is_finite(a) /\ is_finite(b) /\ (a * b) % Scale = 0 /\ is_finite((a * b) \div Scale)
DivExact(a, b) ==
    /\ is_finite(a) /\ is_finite(b) /\ b # 0
    /\ (a * Scale) % Mag(b) = 0 /\ is_finite((a * Scale) \div Mag(b))
AddExact(a, b) == is_finite(a) /\ is_finite(b) /\ is_finite(a + b)
SqrtExact(a) ==
    is_finite(a) /\ a >= 0 /\ RoundSqrt(a * Scale) * RoundSqrt(a * Scale) = a * Scale

RECURSIVE DotExact(_, _)
DotExact(u, v) ==
    \/ Len(u) = 0
    \/ /\ DotExact(SubSeq(u, 1, Len(u) - 1), SubSeq(v, 1, Len(v) - 1))
       /\ MulExact(u[Len(u)], v[Len(v)])
       /\ AddExact(dot(SubSeq(u, 1, Len(u) - 1), SubSeq(v, 1, Len(v) - 1)),
                   FMul(u[Len(u)], v[Len(v)]))

\* no operation of the loop body for column j rounds
ColumnExact(a, n, j) ==
    LET a1 == IF j > 0 THEN GaxpyColumn(a, n, j) ELSE a
        diagonal == a1[<<j, j>>]
    IN  /\ \A k \in j .. n - 1 :
              /\ is_finite(a[<<k, j>>])
              /\ j > 0 => /\ DotExact(RowPrefix(a, k, j), RowPrefix(a, j, j))
                          /\ AddExact(a[<<k, j>>],
                                      FNeg(dot(RowPrefix(a, k, j), RowPrefix(a, j, j))))
        /\ Column(a, n, j).tag = "Ok" =>
              /\ SqrtExact(diagonal)
              /\ \A k \in j .. n - 1 : DivExact(a1[<<k, j>>], sqrt(diagonal))

\* no operation of the sweep over the columns j .. n-1 rounds, up to the column
\* at which the sweep stops
RECURSIVE SweepExact(_, _, _)
SweepExact(a, n, j) ==
    \/ j >= n
    \/ /\ ColumnExact(a, n, j)
       /\ Column(a, n, j).tag = "Ok" => SweepExact(Column(a, n, j).val, n, j + 1)

ExactlyDecomposed == SweepExact(matrix.data, matrix.rows, 0)

\* no multiplication of det rounds
RECURSIVE DiagFoldExact(_, _, _)
DiagFoldExact(l, i, acc) ==
    \/ i >= l.rows
    \/ /\ MulExact(acc, l.data[<<i, i>>])
       /\ DiagFoldExact(l, i + 1, FMul(acc, l.data[<<i, i>>]))

DetExact(c) ==
    /\ DiagFoldExact(c.l, 0, one)
    /\ MulExact(DiagFold(c.l, 0, one), DiagFold(c.l, 0, one))

\* (A * x)[i] in units^2
RECURSIVE ExactRowTimes(_, _, _, _)
ExactRowTimes(a, xd, i, k) ==
    IF k < 0 THEN 0 ELSE ExactRowTimes(a, xd, i, k - 1) + a.data[<<i, k>>] * xd[k]

\* A * x = b, with no rounding
SolvesExactly(a, xv, b) ==
    /\ xv.size = a.cols
    /\ \A i \in Idx(a.rows) :
          /\ is_finite(xv.data[i])
          /\ ExactRowTimes(a, xv.data, i, a.cols - 1) = b.data[i] * Scale

\* the diagonal entry of column j as the sweep updates it, from the input matrix
\* and the rows of the factor: a[j,j] - dot(a[j,0..j], a[j,0..j])
UpdatedDiagonal(m, l, j) ==
    FSub(m.data[<<j, j>>], dot(RowPrefix(l.data, j, j), RowPrefix(l.data, j, j)))

Decomposed == op \in {"decompose", "det", "solve", "unpack"}

-----------------------------------------------------------------------------
(* The comparison of two matrices, over an unsigned integer scalar of W bits. *)

W == 3
MaxWord == 2 ^ W - 1

\* unsigned a - b: when a < b the build decides, a debug build aborts and a
\* release build wraps around
SubAborts == -1
Sub(a, b) ==
    IF a >= b THEN a - b
    ELSE IF cmpBuild = "debug" THEN SubAborts
    ELSE (a - b) % (2 ^ W)

Some(e) == [tag |-> "Some", val |-> e]
AbsoluteError(d) == [tag |-> "AbsoluteError", distance |-> d]
ExactError == [tag |-> "ExactError"]
AbsoluteElementwiseComparator(t) == [kind |-> "absolute", tol |-> t]
ExactElementwiseComparator == [kind |-> "exact"]

\* the distance of a and b when they differ
DistanceMinuendFirst(a, b) == Sub(a, b)

Distance(a, b) == IF a > b THEN Sub(a, b) ELSE Sub(b, a)

\* AbsoluteElementwiseComparator::compare
AbsoluteCompare(c, a, b) ==
    IF a = b THEN None
    ELSE LET distance == Distance(a, b)
         IN  IF distance = SubAborts THEN Panic("attempt to subtract with overflow")
             ELSE IF distance <= c.tol THEN None
             ELSE Some(AbsoluteError(distance))

\* ExactElementwiseComparator::compare
ExactCompare(c, a, b) == IF a = b THEN None ELSE Some(ExactError)

compare(c, a, b) ==
    IF c.kind = "absolute" THEN AbsoluteCompare(c, a, b) ELSE ExactCompare(c, a, b)

ElementComparisonFailure(a, b, e, i, j) ==
    [x |-> a, y |-> b, error |-> e, row |-> i, col |-> j]

Match == [tag |-> "Match"]
MismatchedDimensions(dx, dy) == [tag |-> "MismatchedDimensions", dim_x |-> dx, dim_y |-> dy]
MismatchedElements(c, ms) == [tag |-> "MismatchedElements", comparator |-> c, mismatches |-> ms]

\* the k-th cell the nested loops visit
CellColumnwise(m, k) == <<k % m.rows, k \div m.rows>>

Cell(m, k) == <<k \div m.cols, k % m.cols>>

ShapeTransposed(m) == <<m.cols, m.rows>>

Shape(m) == <<m.rows, m.cols>>

\* the loops over i and j from their k-th cell on: the mismatches pushed so far
\* and, as a record of the scan, the cells at which the comparator was called
RECURSIVE Scan(_, _, _, _, _, _)
Scan(mx, my, c, k, mismatches, calls) ==
    IF k >= mx.rows * mx.cols THEN [mismatches |-> mismatches, calls |-> calls, tag |-> "Done"]
    ELSE LET p == Cell(mx, k)
             a == mx.data[p]
             b == my.data[p]
             r == compare(c, a, b)
         IN  IF r.tag = "Panic"
             THEN [mismatches |-> mismatches, calls |-> Append(calls, p), tag |-> "Panic"]
             ELSE Scan(mx, my, c, k + 1,
                       IF r.tag = "Some"
                       THEN Append(mismatches, ElementComparisonFailure(a, b, r.val, p[1], p[2]))
                       ELSE mismatches,
                       Append(calls, p))

elementwise_matrix_comparison(mx, my, c) ==
    IF mx.rows = my.rows /\ mx.cols = my.cols
    THEN LET s == Scan(mx, my, c, 0, <<>>, <<>>)
         IN  [calls  |-> s.calls,
              result |-> IF s.tag = "Panic" THEN Panic("attempt to subtract with overflow")
                         ELSE IF s.mismatches = <<>> THEN Match
                         ELSE MismatchedElements(c, s.mismatches)]
    ELSE [calls |-> <<>>, result |-> MismatchedDimensions(Shape(mx), Shape(my))]

CmpVals == {0, 1, MaxWord}
CmpShapes == {<<0, 0>>, <<0, 2>>, <<1, 1>>, <<1, 2>>, <<2, 1>>, <<2, 2>>}
CmpMatrices ==
    UNION { {Mat(sh[1], sh[2], f) : f \in [Idx(sh[1]) \X Idx(sh[2]) -> CmpVals]} : sh \in CmpShapes }
\* the matrices of the tests
CmpTestMatrices ==
    { Mat(2, 3, [p \in Idx(2) \X Idx(3) |-> 3 * p[1] + p[2] + 1]),
      Mat(2, 3, [p \in Idx(2) \X Idx(3) |-> IF p = <<0, 1>> \/ p = <<1, 0>> THEN 0
                                            ELSE 3 * p[1] + p[2] + 1]) }
Comparators ==
    {ExactElementwiseComparator} \cup {AbsoluteElementwiseComparator(t) : t \in CmpVals}

InitCmp ==
    /\ CholIdle
    /\ PermIdle
    /\ cmpX \in CmpMatrices \cup CmpTestMatrices
    /\ cmpY \in CmpMatrices \cup CmpTestMatrices
    /\ comparator \in Comparators
    /\ cmpBuild \in {"debug", "release"}
    /\ cmp = None

\* lines 92-125
Compare ==
    /\ cmpX # None
    /\ cmp = None
    /\ cmp' = elementwise_matrix_comparison(cmpX, cmpY, comparator)
    /\ UNCHANGED <<cmpX, cmpY, comparator, cmpBuild, cholVars, permVars>>

NextCmp == Compare

SpecCmp == InitCmp /\ [][NextCmp]_vars

-----------------------------------------------------------------------------
(* PermutationMatrix<T>: a Permutation, perm[i] the destination of index i. *)

MaxPermN == 4

\* Permutation::identity, cardinality, swap and inverse
PermutationIdentity(n) == [i \in Idx(n) |-> i]
cardinality(pi) == Cardinality(DOMAIN pi)
PermutationSwap(pi, i, j) ==
    [k \in DOMAIN pi |-> IF k = i THEN pi[j] ELSE IF k = j THEN pi[i] ELSE pi[k]]
PermutationInverse(pi) ==
    [k \in DOMAIN pi |-> CHOOSE i \in DOMAIN pi : pi[i] = k]

identity(n) == [perm |-> PermutationIdentity(n)]
\* a swap that writes position i only
swap_one_sided(pm, i, j) == [perm |-> [pm.perm EXCEPT ![i] = pm.perm[j]]]

\* lines 33-35
swap(pm, i, j) == [perm |-> PermutationSwap(pm.perm, i, j)]
inverse(pm) == [perm |-> PermutationInverse(pm.perm)]
dim(pm) == cardinality(pm.perm)
as_matrix(pm) == Panic("not yet implemented")

Called(f, r) == [call |-> f, result |-> r]

InitPerm ==
    /\ CholIdle
    /\ CmpIdle
    /\ \E n \in 0 .. MaxPermN : perm = identity(n)
    /\ pmOut = None

\* lines 33-35; indices out of range abort in Permutation::swap
PmSwap ==
    /\ perm # None
    /\ \E i, j \in 0 .. MaxPermN :
          IF i < dim(perm) /\ j < dim(perm)
          THEN perm' = swap(perm, i, j) /\ pmOut' = Called("swap", Ok(<<i, j>>))
          ELSE perm' = perm /\ pmOut' = Called("swap", Panic("index out of bounds"))
    /\ UNCHANGED <<cholVars, cmpVars>>

\* lines 38-43
PmInverse ==
    /\ perm # None
    /\ pmOut' = Called("inverse", Ok(inverse(perm)))
    /\ UNCHANGED <<perm, cholVars, cmpVars>>

\* lines 49-51
PmDim ==
    /\ perm # None
    /\ pmOut' = Called("dim", Ok(dim(perm)))
    /\ UNCHANGED <<perm, cholVars, cmpVars>>

\* lines 54-56
PmAsMatrix ==
    /\ perm # None
    /\ pmOut' = Called("as_matrix", as_matrix(perm))
    /\ UNCHANGED <<perm, cholVars, cmpVars>>

NextPerm == PmSwap \/ PmInverse \/ PmDim \/ PmAsMatrix

SpecPerm == InitPerm /\ [][NextPerm]_vars

-----------------------------------------------------------------------------
(* The claims.                                                             *)

\* C1 (as claimed): decompose of a square matrix never aborts; it returns a
\* DecompFailure at the first column whose updated diagonal d has |d| < epsilon
\* ("singular to working precision") or else d < 0 ("not all positive"), and it
\* returns a factor only when the updated diagonal of every column is >= epsilon.
C1_DecomposeFailsOrDiagonalsAtLeastEps ==
    (Decomposed /\ matrix.rows = matrix.cols) =>
        /\ chol.tag \in {"Ok", "Err"}
        /\ chol.tag = "Err" =>
              LET d == sweep.a[<<sweep.j, sweep.j>>]
              IN  /\ chol.kind = "DecompFailure"
                  /\ FLt(abs(d), Eps) \/ FLt(d, zero)
                  /\ FLt(abs(d), Eps)
                        <=> chol.msg = "Matrix is singular to working precision."
        /\ chol.tag = "Ok" =>
              \A j \in Idx(matrix.rows) :
                  FGe(UpdatedDiagonal(matrix, chol.val.l, j), Eps)

\* C2 (as claimed): for every symmetric positive-definite A, decompose succeeds
\* and the unpacked factor L satisfies L * L^T = A.
C2_PositiveDefiniteReconstructs ==
    (Decomposed /\ PositiveDefinite(matrix)) =>
        /\ chol.tag = "Ok"
        /\ ReconstructsExactly(unpack(chol.val), matrix)

\* C2 (amended): for every symmetric positive-definite A whose sweep rounds
\* nothing, decompose either succeeds, and then the unpacked factor L satisfies
\* L * L^T = A exactly, or it stops at a column whose updated diagonal is positive
\* but smaller than epsilon and reports "singular to working precision".
C2_ExactSweepReconstructs ==
    (Decomposed /\ PositiveDefinite(matrix) /\ ExactlyDecomposed) =>
        /\ chol.tag = "Err" =>
              /\ chol.msg = "Matrix is singular to working precision."
              /\ sweep.a[<<sweep.j, sweep.j>>] > 0
              /\ sweep.a[<<sweep.j, sweep.j>>] < Eps
        /\ op = "unpack" => ReconstructsExactly(out.val, matrix)

\* C2 (witness): a 2 x 2 positive-definite matrix with a non-zero off-diagonal
\* entry has been decomposed without rounding and unpacked.
C2_Witness ==
    /\ op = "unpack"
    /\ PositiveDefinite(matrix)
    /\ ExactlyDecomposed
    /\ matrix.rows = 2
    /\ matrix.data[<<1, 0>>] # 0

\* C3 (as claimed): for every matrix A that decompose accepts and every b of A's
\* dimension, solve(b) does not abort and returns x with A * x = b.
C3_SolveReturnsSolution ==
    op = "solve" =>
        /\ out.tag = "Ok"
        /\ SolvesExactly(matrix, out.val, rhs)

\* the mismatches a comparison reported
Reported == IF cmp.result.tag = "MismatchedElements" THEN cmp.result.mismatches ELSE <<>>

Compared == cmp # None
SameShape == cmpX.rows = cmpY.rows /\ cmpX.cols = cmpY.cols

\* the cells of x, row by row
RowMajor(m) == [k \in 1 .. m.rows * m.cols |-> <<(k - 1) \div m.cols, (k - 1) % m.cols>>]

\* the cells at which the comparator reports an error, row by row, as failures
RECURSIVE ExpectedFrom(_)
ExpectedFrom(cells) ==
    IF cells = <<>> THEN <<>>
    ELSE LET p == Head(cells)
             r == compare(comparator, cmpX.data[p], cmpY.data[p])
         IN  IF r.tag = "Some"
             THEN <<[x |-> cmpX.data[p], y |-> cmpY.data[p], error |-> r.val,
                     row |-> p[1], col |-> p[2]]>> \o ExpectedFrom(Tail(cells))
             ELSE ExpectedFrom(Tail(cells))

\* C4: elementwise_matrix_comparison returns MismatchedDimensions with the
\* (rows, cols) of x and of y whenever the row counts or the column counts
\* differ, whatever the comparator, and then the comparator is applied to no
\* cell; Match and MismatchedElements are returned only for equal dimensions.
C4_MismatchedDimensionsWithoutScan ==
    Compared =>
        /\ ~SameShape =>
              /\ cmp.result = [tag |-> "MismatchedDimensions",
                               dim_x |-> <<cmpX.rows, cmpX.cols>>,
                               dim_y |-> <<cmpY.rows, cmpY.cols>>]
              /\ cmp.calls = <<>>
        /\ cmp.result.tag \in {"Match", "MismatchedElements"} => SameShape

\* C4 (witness): the 2 x 3 matrix of the tests has been compared with a
\* 2 x 2 matrix.
C4_Witness ==
    /\ Compared
    /\ cmpX.rows = 2 /\ cmpX.cols = 3
    /\ cmpY.rows = 2 /\ cmpY.cols = 2

\* C5: for matrices of equal dimensions the comparison calls the comparator at
\* every cell, row by row, and records exactly the cells where it reports an
\* error, each with its x, y, row and col, in row-major order; the result is
\* Match iff that list is empty and otherwise MismatchedElements with the
\* comparator and the whole list.
C5_AllMismatchesRowMajor ==
    (Compared /\ SameShape) =>
        /\ cmp.result.tag \in {"Match", "MismatchedElements"}
        /\ cmp.calls = RowMajor(cmpX)
        /\ Reported = ExpectedFrom(RowMajor(cmpX))
        /\ cmp.result.tag = "Match" <=> ExpectedFrom(RowMajor(cmpX)) = <<>>
        /\ cmp.result.tag = "MismatchedElements" => cmp.result.comparator = comparator

\* C5 (witness): two 2 x 3 matrices that differ at (0, 1) and at (1, 0) have been
\* compared and both cells are reported.
C5_Witness ==
    /\ Compared
    /\ cmpX.rows = 2 /\ cmpX.cols = 3 /\ SameShape
    /\ Len(Reported) = 2
    /\ Reported[1].row = 0 /\ Reported[1].col = 1
    /\ Reported[2].row = 1 /\ Reported[2].col = 0

C7_UnpackZeroesUpperKeepsLower ==
    op = "unpack" =>
        /\ out.val.rows = matrix.rows /\ out.val.cols = matrix.cols
        /\ DOMAIN out.val.data = Idx(matrix.rows) \X Idx(matrix.cols)
        /\ \A p \in DOMAIN out.val.data :
              out.val.data[p] = IF p[2] > p[1] THEN zero ELSE chol.val.l.data[p]

\* C7 (witness): a factor with a non-zero entry above its diagonal has been unpacked.
C7_Witness ==
    /\ op = "unpack"
    /\ \E p \in DOMAIN chol.val.l.data : p[2] > p[1] /\ chol.val.l.data[p] # zero

\* C8: decomposing the N x N identity matrix succeeds and, unpacked, gives the
\* N x N identity matrix, for N = 0 .. 30.
C8_IdentityDecomposesToIdentity ==
    (Decomposed /\ matrix = Identity(matrix.rows) /\ matrix.rows <= MaxIdentityN) =>
        /\ chol.tag = "Ok"
        /\ op = "unpack" => out.val = matrix

\* C8 (witness): the 30 x 30 identity has been decomposed and unpacked.
C8_Witness ==
    /\ op = "unpack"
    /\ matrix = Identity(MaxIdentityN)

\* C9 (as claimed): for every successful decomposition of a matrix A, det()
\* equals det(A); for the 0 x 0 factor it is 1.
C9_DetEqualsDetOfInput ==
    op = "det" =>
        /\ matrix.rows = 0 => out.val = one
        /\ out.val * Pow(Scale, matrix.rows)
              = ExactDet(matrix.data, 0, Idx(matrix.rows)) * Scale

\* C9 (amended): det() depends on the diagonal of the stored factor only (not on
\* the stale upper triangle) and is 1 for the 0 x 0 factor; for every successful
\* decomposition of a symmetric matrix A in which neither the sweep nor det()
\* rounds, det() equals det(A).
C9_DetOfSymmetricExact ==
    op = "det" =>
        /\ out.val = det([l |-> unpack(chol.val)])
        /\ matrix.rows = 0 => out.val = one
        /\ (Symmetric(matrix) /\ ExactlyDecomposed /\ DetExact(chol.val)) =>
              out.val * Pow(Scale, matrix.rows)
                  = ExactDet(matrix.data, 0, Idx(matrix.rows)) * Scale

\* C9 (witness): det() of a 3 x 3 symmetric matrix, decomposed without rounding,
\* has returned 36.
C9_Witness ==
    /\ op = "det"
    /\ matrix.rows = 3
    /\ Symmetric(matrix) /\ ExactlyDecomposed /\ DetExact(chol.val)
    /\ out.val = 36 * Scale

\* C10 (as claimed): as_matrix() of a permutation matrix of dimension N, reached
\* from identity(N) by swaps, returns the N x N matrix whose row i has a single
\* one, in column perm[i], and zeros elsewhere.
C10_AsMatrixReturnsDense ==
    (pmOut # None /\ pmOut.call = "as_matrix") =>
        /\ pmOut.result.tag = "Ok"
        /\ pmOut.result.val =
              Mat(dim(perm), dim(perm),
                  [p \in Idx(dim(perm)) \X Idx(dim(perm)) |->
                      IF perm.perm[p[1]] = p[2] THEN one ELSE zero])

\* the wrapped permutation maps {0 .. n-1} onto itself
Bijective(pm) ==
    /\ DOMAIN pm.perm = Idx(dim(pm))
    /\ \A i \in DOMAIN pm.perm : pm.perm[i] \in Idx(dim(pm))
    /\ \A i, j \in DOMAIN pm.perm : pm.perm[i] = pm.perm[j] => i = j

\* a step that is a successful swap(i, j) exchanges the destinations at i and j
\* and changes no other position
SwapExchangesOnly ==
    (pmOut'.call = "swap" /\ pmOut'.result.tag = "Ok") =>
        LET i == pmOut'.result.val[1]
            j == pmOut'.result.val[2]
        IN  /\ perm'.perm[i] = perm.perm[j]
            /\ perm'.perm[j] = perm.perm[i]
            /\ \A k \in DOMAIN perm.perm : (k # i /\ k # j) => perm'.perm[k] = perm.perm[k]

\* C11: after identity(n) and any sequence of swap(i, j) with i, j < n the
\* wrapped permutation is a bijection on {0 .. n-1} and dim() is still n; each
\* swap(i, j) exchanges the destinations at positions i and j and leaves every
\* other position unchanged.
C11_SwapsKeepBijection ==
    /\ [](perm # None =>
            /\ Bijective(perm)
            /\ (pmOut # None /\ pmOut.call = "dim") =>
                   pmOut.result = [tag |-> "Ok", val |-> Cardinality(DOMAIN perm.perm)])
    /\ [][perm # None =>
            /\ Cardinality(DOMAIN perm'.perm) = Cardinality(DOMAIN perm.perm)
            /\ SwapExchangesOnly]_vars

\* C11 (witness): swaps have turned identity(4) into a permutation that moves
\* three positions, and dim() has answered.
C11_Witness ==
    /\ perm # None /\ pmOut # None
    /\ pmOut.call = "dim"
    /\ Cardinality(DOMAIN perm.perm) = 4
    /\ Cardinality({i \in DOMAIN perm.perm : perm.perm[i] # i}) = 3

\* C12 (as claimed): Matrix::cholesky returns a failure, not a factor, for every
\* square matrix that is not positive definite, among them the 1 x 1 matrices
\* with a zero or negative entry and the matrices whose failure shows on a
\* diagonal entry only.
C12_NotPositiveDefiniteFails ==
    (op = "cholesky" /\ Symmetric(matrix) /\ AllFinite(matrix)
        /\ ~PositiveDefinite(matrix)) => out.tag = "Err"

\* sum of L[j, i] * x[j] for j = from .. n-1, added in that order to acc
RECURSIVE BackSum(_, _, _, _, _)
BackSum(l, xd, i, from, acc) ==
    IF from >= l.rows THEN acc
    ELSE BackSum(l, xd, i, from + 1, FAdd(acc, FMul(l.data[<<from, i>>], xd[from])))

\* no product and no sum of BackSum rounds or overflows
RECURSIVE BackSumExact(_, _, _, _, _)
BackSumExact(l, xd, i, from, acc) ==
    \/ from >= l.rows
    \/ /\ MulExact(l.data[<<from, i>>], xd[from])
       /\ AddExact(acc, FMul(l.data[<<from, i>>], xd[from]))
       /\ BackSumExact(l, xd, i, from + 1, FAdd(acc, FMul(l.data[<<from, i>>], xd[from])))

\* no operation that produced x from l and b rounded
BackExact(l, xd, b) ==
    \A i \in Idx(l.rows) :
        LET s == BackSum(l, xd, i, i + 1, zero)
        IN  /\ BackSumExact(l, xd, i, i + 1, zero)
            /\ AddExact(b.data[i], -s)
            /\ DivExact(b.data[i] - s, l.data[<<i, i>>])

\* (L^T * x)[i] in units^2
RECURSIVE ExactColumnTimes(_, _, _, _)
ExactColumnTimes(l, xd, i, j) ==
    IF j >= l.rows THEN 0 ELSE l.data[<<j, i>>] * xd[j] + ExactColumnTimes(l, xd, i, j + 1)

SomeDiagonalBelowEps(l) == \E i \in Idx(l.rows) : FLt(abs(l.data[<<i, i>>]), Eps)

\* C13: for a square N x N L and b of length N, transpose_back_substitution
\* returns a DivByZero failure iff some diagonal entry has |L[i,i]| < epsilon;
\* otherwise it returns x with x[i] = (b[i] - sum over j > i of L[j,i] * x[j]) / L[i,i],
\* which reads no entry of L above the diagonal and, when no operation rounds,
\* is the solution of L^T * x = b; for N = 0 it returns the empty vector.
C13_BackSubstitutionSolvesTranspose ==
    (op = "back" /\ matrix.rows = matrix.cols /\ rhs.size = matrix.rows) =>
        /\ SomeDiagonalBelowEps(matrix) <=>
              (out.tag = "Err" /\ out.kind = "DivByZero")
        /\ ~SomeDiagonalBelowEps(matrix) =>
              /\ out.tag = "Ok"
              /\ out.val.size = matrix.rows
              /\ DOMAIN out.val.data = Idx(matrix.rows)
              /\ \A i \in Idx(matrix.rows) :
                    out.val.data[i] =
                        FDiv(FSub(rhs.data[i], BackSum(matrix, out.val.data, i, i + 1, zero)),
                             matrix.data[<<i, i>>])
              /\ out = transpose_back_substitution(nullify_upper_triangular_part(matrix), rhs)
              /\ BackExact(matrix, out.val.data, rhs) =>
                    \A i \in Idx(matrix.rows) :
                        ExactColumnTimes(matrix, out.val.data, i, i) = rhs.data[i] * Scale
        /\ matrix.rows = 0 => out = [tag |-> "Ok", val |-> rhs]

\* C13 (witness): the 3 x 3 system of the tests has been solved, x = [7.5, -2, 3],
\* with no operation rounding.
C13_Witness ==
    /\ op = "back"
    /\ matrix.rows = 3 /\ matrix.cols = 3 /\ rhs.size = 3
    /\ matrix.data[<<1, 0>>] = 5 * Scale
    /\ out.tag = "Ok"
    /\ BackExact(matrix, out.val.data, rhs)
    /\ 2 * out.val.data[0] = 15 * Scale
    /\ out.val.data[1] = -2 * Scale
    /\ out.val.data[2] = 3 * Scale

=============================================================================
